---- MODULE Spec2Model ----
(***************************************************************************)
(* State-machine model of plugin.py: the ImGuiOpenGLWidget bridge between  *)
(* a Qt surface and the immediate-mode GUI library.  Every handler of the  *)
(* widget (__init__, __del__, handle_event, render) is one atomic action,  *)
(* because all of them run on the single Qt event-dispatch thread.  The    *)
(* calls a handler makes are recorded, in order, in `trace`, each with the *)
(* GuiContext that was globally active when the call was made.  The native *)
(* callbacks of ImGuiGLWindow, which call handle_event, and open_gui of    *)
(* the plugin, which constructs a widget, are actions of their own.        *)
(* Spec is the lifecycle of two widgets; RouterSpec, DisplaySpec,          *)
(* InputSpec, PluginSpec and LoopSpec are scenarios over the same actions. *)
(***************************************************************************)
EXTENDS Integers, Sequences, FiniteSets, TLC

\* ------------------------------------------------------------------ bounds
MaxFrames == 1
MaxQueue == 1
MaxDel == 2

\* The two bridge instances that coexist, and the handle of the GuiContext each
\* one's constructor gets from imgui.create_context().
Widgets == {"A", "B"}
Contexts == {"ctxA", "ctxB"}

\* Python's None and the library's NULL context.
None == "None"

\* self.renderer = None
NoRenderer == 0

\* ------------------------------------------------------------------- state
VARIABLES
    obj,            \* per widget: "none" (not constructed), "partial" (__init__ raised), "built"
    imgui_context,  \* per widget: self.imgui_context (None while the attribute is unset)
    renderer,       \* per widget: self.renderer: None, or the renderer object (its construction serial)
    timer,          \* per widget: the QTimer connected to render is running
    rendererCtor,   \* per widget: number of ProgrammablePipelineRenderer() constructions
    delCalls,       \* per widget: number of __del__ invocations so far
    current,        \* the library's global active GuiContext
    ctxStatus,      \* per context: "free", "live", "destroyed"
    destroyCalls,   \* per context: number of imgui.destroy_context calls on it
    frameCount,     \* per context: the library's frame counter
    inputQueue,     \* per context: the io input queue
    displaySize,    \* per context: io.display_size
    fbScale,        \* per context: io.display_framebuffer_scale
    iniFilename,    \* per context: the ini file name set on io
    trace,          \* calls made by the last handler: <<operation, active context>>
    actor,          \* the widget whose handler ran last
    handler,        \* which handler ran last
    fault,          \* what escaped the last handler: "none", an exception name, or "crash"
    opengl_window,  \* per window: whether it is constructed, and its event_handler
    routed,         \* the last native callback: its window, name and raw event, its steps, what escaped it
    surfaceSize,    \* per widget: what opengl_window.size() returns (toolkit state)
    devicePixelRatio, \* per widget: what devicePixelRatio() returns (toolkit state)
    counter         \* ImGuiPlugin.counter

widgetVars == <<obj, imgui_context, renderer, timer, rendererCtor, delCalls>>
libVars == <<current, ctxStatus, destroyCalls, frameCount, inputQueue, displaySize, fbScale, iniFilename>>
obsVars == <<trace, actor, handler, fault>>
toolkitVars == <<surfaceSize, devicePixelRatio>>
hostVars == <<opengl_window, routed, toolkitVars, counter>>
vars == <<widgetVars, libVars, obsVars, hostVars>>

\* io.display_size before the first write of render.
NoSize == <<0, 0>>

\* ------------------------------------------------------------ trace helpers
\* A call that returned normally, and a call with the given result: a returned
\* value that decides the control flow ("False"), or the exception it raised.
Call(op, ctx) == <<op, ctx, "ok">>

CallR(op, ctx, result) == <<op, ctx, result>>

\* Whether `op` was called in t and returned normally.
Returned(t, op) == \E i \in DOMAIN t : t[i][1] = op /\ t[i][3] = "ok"

\* The result of a call that returns a truth value.
Truth(b) == IF b THEN "ok" ELSE "False"

\* Whether `op` was called in t and raised.
Raised(t, op) == \E i \in DOMAIN t : t[i][1] = op /\ t[i][3] \notin {"ok", "False"}

Count(t, op) == Cardinality({i \in DOMAIN t : t[i][1] = op})

Has(t, op) == \E i \in DOMAIN t : t[i][1] = op

\* Position of the first call of `op` in t, 0 when absent.
Pos(t, op) == IF Has(t, op) THEN CHOOSE i \in DOMAIN t : t[i][1] = op /\ \A j \in 1..(i-1) : t[j][1] # op ELSE 0

Live(c) == c # None /\ ctxStatus[c] = "live"

Running == fault # "crash"

\* f'{ini_prefix}.ini'; a prefix of None is formatted as the text "None".
IniName(ini_prefix) == <<ini_prefix, ".ini">>

\* The surface size and device pixel ratio the toolkit reports when the program
\* starts, and the ini prefix of the lifecycle specification.
LifecycleSizes == {<<640, 480>>}
LifecyclePrefixes == {"a"}
LifecyclePixelRatios == {1}

\* The render surfaces: the opengl_window of each widget, and a window that is
\* constructed on its own, ImGuiGLWindow(), with no handler.
Windows == Widgets \cup {"bare"}

\* A window that is not constructed yet, and one constructed with event_handler h.
NoWindow == [built |-> FALSE, event_handler |-> None]

ImGuiGLWindow(h) == [built |-> TRUE, event_handler |-> h]

\* No native callback has run yet.
NoCallback == [window |-> None, callback |-> None, event |-> None, steps |-> <<>>, fault |-> "none"]

\* ------------------------------------------------------------------- Init
Init ==
    /\ obj = [w \in Widgets |-> "none"]
    /\ imgui_context = [w \in Widgets |-> None]
    /\ renderer = [w \in Widgets |-> NoRenderer]
    /\ timer = [w \in Widgets |-> FALSE]
    /\ rendererCtor = [w \in Widgets |-> 0]
    /\ delCalls = [w \in Widgets |-> 0]
    /\ current = None
    /\ ctxStatus = [c \in Contexts |-> "free"]
    /\ destroyCalls = [c \in Contexts |-> 0]
    /\ frameCount = [c \in Contexts |-> 0]
    /\ inputQueue = [c \in Contexts |-> <<>>]
    /\ displaySize = [c \in Contexts |-> NoSize]
    /\ fbScale = [c \in Contexts |-> 1]
    /\ iniFilename = [c \in Contexts |-> IniName("imgui")]
    /\ trace = <<>>
    /\ actor = None
    /\ handler = "none"
    /\ fault = "none"
    /\ opengl_window = [x \in Windows |-> NoWindow]
    /\ routed = NoCallback
    /\ surfaceSize \in [Widgets -> LifecycleSizes]
    /\ devicePixelRatio \in [Widgets -> LifecyclePixelRatios]
    /\ counter = 0

\* ------------------------------------------------- ImGuiOpenGLWidget.__init__
\* imgui.create_context() in the constructor of widget w: a fresh handle.
NewContext(w) == IF w = "A" THEN "ctxA" ELSE "ctxB"

\* The calls of a construction that gets past the graphics-context creation.
InitTrace(c) ==
    <<Call("QOpenGLContext.create", current),
      Call("create_context", current),
      Call("set_current_context", c),
      Call("set_ini_filename", c),
      Call("set_display_framebuffer_scale", c),
      Call("timer.start", c)>>

Widget_init(w, ini_prefix, glCreated, device_pixel_ratio) ==
    /\ Running
    /\ obj[w] = "none"
    /\ actor' = w
    /\ handler' = "__init__"
    /\ opengl_window' = [opengl_window EXCEPT ![w] = ImGuiGLWindow("handle_event")]
    /\ UNCHANGED <<renderer, rendererCtor, delCalls, destroyCalls, frameCount, inputQueue, displaySize>>
    /\ UNCHANGED <<routed, toolkitVars>>
    /\ IF ~glCreated
       THEN \* assert self.context.create() fails: imgui_context and renderer are never assigned
            /\ obj' = [obj EXCEPT ![w] = "partial"]
            /\ trace' = <<CallR("QOpenGLContext.create", current, "False")>>
            /\ fault' = "AssertionError"
            /\ UNCHANGED <<imgui_context, timer, current, ctxStatus, fbScale, iniFilename>>
       ELSE LET c == NewContext(w) IN
            /\ obj' = [obj EXCEPT ![w] = "built"]
            /\ imgui_context' = [imgui_context EXCEPT ![w] = c]
            /\ ctxStatus' = [ctxStatus EXCEPT ![c] = "live"]
            /\ current' = c
            /\ iniFilename' = [iniFilename EXCEPT ![c] = IniName(ini_prefix)]
            /\ fbScale' = [fbScale EXCEPT ![c] = device_pixel_ratio]
            /\ timer' = [timer EXCEPT ![w] = TRUE]
            /\ trace' = InitTrace(c)
            /\ fault' = "none"

\* -------------------------------------------------- ImGuiOpenGLWidget.__del__
\* The guard of __del__: `if self.imgui_context`.
DelGuard(w) == imgui_context[w] # None

\* The calls of a teardown whose guard passed, in the order the code makes them.
DelTrace(w, c) ==
    <<Call("set_current_context", c)>>
    \o (IF renderer[w] # NoRenderer THEN <<Call("renderer.shutdown", c)>> ELSE <<>>)
    \o <<Call("destroy_context", c)>>

\* `ub`: what destroying an already-destroyed context (a double free) does.
Widget_del(w, ub) ==
    /\ Running
    /\ obj[w] # "none"
    /\ delCalls[w] < MaxDel
    /\ actor' = w
    /\ handler' = "__del__"
    /\ delCalls' = [delCalls EXCEPT ![w] = @ + 1]
    /\ UNCHANGED <<obj, imgui_context, renderer, timer, rendererCtor>>
    /\ UNCHANGED <<frameCount, inputQueue, displaySize, fbScale, iniFilename>>
    /\ UNCHANGED hostVars
    /\ IF obj[w] = "partial"
       THEN \* self.imgui_context was never assigned: the attribute read raises
            /\ ub = "proceed"
            /\ trace' = <<>>
            /\ fault' = "AttributeError"
            /\ UNCHANGED <<current, ctxStatus, destroyCalls>>
       ELSE IF ~DelGuard(w)
       THEN /\ ub = "proceed"
            /\ trace' = <<>>
            /\ fault' = "none"
            /\ UNCHANGED <<current, ctxStatus, destroyCalls>>
       ELSE LET c == imgui_context[w] IN
            /\ trace' = DelTrace(w, c)
            /\ destroyCalls' = [destroyCalls EXCEPT ![c] = @ + 1]
            /\ ctxStatus' = [ctxStatus EXCEPT ![c] = "destroyed"]
            /\ IF Live(c)
               THEN /\ ub = "proceed"
                    /\ current' = None
                    /\ fault' = "none"
               ELSE /\ current' = IF ub = "crash" THEN c ELSE None
                    /\ fault' = IF ub = "crash" THEN "crash" ELSE "none"

\* ------------------------------------------------------ InputEventTranslator
RightAndMiddleSwapped(button) ==
    IF button = "LeftButton" THEN "left"
    ELSE IF button = "RightButton" THEN "middle"
    ELSE IF button = "MiddleButton" THEN "right"
    ELSE None

qt_mouse_button_to_imgui(button) ==
    IF button = "LeftButton" THEN "left"
    ELSE IF button = "RightButton" THEN "right"
    ELSE IF button = "MiddleButton" THEN "middle"
    ELSE None

\* imgui.MouseButton_.<name>.value
ButtonValue(b) == CASE b = "left" -> 0 [] b = "right" -> 1 [] b = "middle" -> 2

key_map ==
    [k \in {"Key_Tab", "Key_Left", "Key_Right", "Key_Up", "Key_Down", "Key_PageUp",
            "Key_PageDown", "Key_Home", "Key_End", "Key_Insert", "Key_Delete",
            "Key_Backspace", "Key_Space", "Key_Return", "Key_Enter", "Key_Escape",
            "Key_A", "Key_C", "Key_V", "Key_X", "Key_Y", "Key_Z", "Key_Control",
            "Key_Shift", "Key_Alt", "Key_Super_L", "Key_Super_R", "Key_Menu",
            "Key_F1", "Key_F2", "Key_F3", "Key_F4", "Key_F5", "Key_F6", "Key_F7",
            "Key_F8", "Key_F9", "Key_F10", "Key_F11", "Key_F12"} |->
        CASE k = "Key_Tab" -> "tab" [] k = "Key_Left" -> "left_arrow"
          [] k = "Key_Right" -> "right_arrow" [] k = "Key_Up" -> "up_arrow"
          [] k = "Key_Down" -> "down_arrow" [] k = "Key_PageUp" -> "page_up"
          [] k = "Key_PageDown" -> "page_down" [] k = "Key_Home" -> "home"
          [] k = "Key_End" -> "end" [] k = "Key_Insert" -> "insert"
          [] k = "Key_Delete" -> "delete" [] k = "Key_Backspace" -> "backspace"
          [] k = "Key_Space" -> "space" [] k = "Key_Return" -> "enter"
          [] k = "Key_Enter" -> "enter" [] k = "Key_Escape" -> "escape"
          [] k = "Key_A" -> "a" [] k = "Key_C" -> "c" [] k = "Key_V" -> "v"
          [] k = "Key_X" -> "x" [] k = "Key_Y" -> "y" [] k = "Key_Z" -> "z"
          [] k = "Key_Control" -> "left_ctrl" [] k = "Key_Shift" -> "left_shift"
          [] k = "Key_Alt" -> "left_alt" [] k = "Key_Super_L" -> "left_super"
          [] k = "Key_Super_R" -> "right_super" [] k = "Key_Menu" -> "menu"
          [] k = "Key_F1" -> "f1" [] k = "Key_F2" -> "f2" [] k = "Key_F3" -> "f3"
          [] k = "Key_F4" -> "f4" [] k = "Key_F5" -> "f5" [] k = "Key_F6" -> "f6"
          [] k = "Key_F7" -> "f7" [] k = "Key_F8" -> "f8" [] k = "Key_F9" -> "f9"
          [] k = "Key_F10" -> "f10" [] k = "Key_F11" -> "f11" [] k = "Key_F12" -> "f12"]

qt_key_to_imgui(key) == IF key \in DOMAIN key_map THEN key_map[key] ELSE None

\* ord() of the characters the modelled key texts are made of.
Ord(ch) == CASE ch = "a" -> 97 [] ch = "b" -> 98 [] ch = "\t" -> 9

\* A raw toolkit event: the fields handle_event reads from it.
QtEvent(type, button, key, text, x, y, angleY) ==
    [type |-> type, button |-> button, key |-> key, text |-> text, x |-> x, y |-> y, angleY |-> angleY]

\* One call on io: the operation and its arguments (unused arguments are blank).
IoCall(op, key, x, y, down) == [op |-> op, key |-> key, x |-> x, y |-> y, down |-> down]

\* `for char in event.text(): io.add_input_character(ord(char))`
TextCalls(text) == [i \in 1..Len(text) |-> IoCall("add_input_character", "", Ord(text[i]), 0, FALSE)]

\* The KEY_PRESS branch: the key event when the key is mapped, then the text.
TextOnlyForMappedKeys(event) ==
    LET imgui_key == qt_key_to_imgui(event.key) IN
    IF imgui_key # None THEN <<IoCall("add_key_event", imgui_key, 0, 0, TRUE)>> \o TextCalls(event.text) ELSE <<>>

KeyPressCalls(event) ==
    LET imgui_key == qt_key_to_imgui(event.key) IN
    (IF imgui_key # None THEN <<IoCall("add_key_event", imgui_key, 0, 0, TRUE)>> ELSE <<>>)
    \o TextCalls(event.text)

\* The io calls handle_event makes for an event, in order.
IoCalls(event) ==
    IF event.type = "MOUSE_PRESS" THEN
        LET button == qt_mouse_button_to_imgui(event.button) IN
        IF button # None THEN <<IoCall("add_mouse_button_event", "", ButtonValue(button), 0, TRUE)>> ELSE <<>>
    ELSE IF event.type = "MOUSE_RELEASE" THEN
        LET button == qt_mouse_button_to_imgui(event.button) IN
        IF button # None THEN <<IoCall("add_mouse_button_event", "", ButtonValue(button), 0, FALSE)>> ELSE <<>>
    ELSE IF event.type = "MOUSE_MOVE" THEN
        <<IoCall("add_mouse_pos_event", "", event.x, event.y, FALSE)>>
    ELSE IF event.type = "WHEEL" THEN
        \* angleDelta().y() / 120.0, for deltas that are whole notches
        <<IoCall("add_mouse_wheel_event", "", 0, event.angleY \div 120, FALSE)>>
    ELSE IF event.type = "KEY_PRESS" THEN KeyPressCalls(event)
    ELSE IF event.type = "KEY_RELEASE" THEN
        LET imgui_key == qt_key_to_imgui(event.key) IN
        IF imgui_key # None THEN <<IoCall("add_key_event", imgui_key, 0, 0, FALSE)>> ELSE <<>>
    ELSE IF event.type = "FOCUS_IN" THEN
        <<IoCall("add_focus_event", "", 0, 0, TRUE)>>
    ELSE IF event.type = "FOCUS_OUT" THEN
        <<IoCall("add_focus_event", "", 0, 0, FALSE)>>
    ELSE <<>>

\* --------------------------------------------- ImGuiOpenGLWidget.handle_event
\* imgui.get_io(): the io of the globally active context.  handle_event makes
\* no set_current_context call before it.
EventContext(w) == current

\* `out`: what a call against a context that is not live does.  With no active
\* context get_io fails (an exception or a crash); with a destroyed one it reads
\* freed memory (it goes on, or the process crashes).  An event is delivered
\* while the queue it goes to holds fewer than MaxQueue entries.
handle_event(w, event, out) ==
    /\ Running
    /\ obj[w] = "built"
    /\ actor' = w
    /\ handler' = "handle_event"
    /\ UNCHANGED widgetVars
    /\ UNCHANGED <<current, ctxStatus, destroyCalls, frameCount, displaySize, fbScale, iniFilename>>
    /\ UNCHANGED <<opengl_window, toolkitVars, counter>>
    /\ LET c == EventContext(w)
           calls == IoCalls(event)
       IN  IF c = None
           THEN /\ out \in {"RuntimeError", "crash"}
                /\ trace' = <<CallR("get_io", c, out)>>
                /\ fault' = out
                /\ UNCHANGED inputQueue
           ELSE /\ IF Live(c) THEN out = "proceed" ELSE out \in {"proceed", "crash"}
                /\ IF out = "crash"
                   THEN /\ trace' = <<CallR("get_io", c, "crash")>>
                        /\ fault' = "crash"
                        /\ UNCHANGED inputQueue
                   ELSE /\ Len(inputQueue[c]) < MaxQueue
                        /\ trace' = <<Call("get_io", c)>> \o [i \in 1..Len(calls) |-> Call(calls[i].op, c)]
                        /\ fault' = "none"
                        /\ inputQueue' = [inputQueue EXCEPT ![c] = @ \o calls]

\* ------------------------------------------------------------- ImGuiGLWindow
\* ImGuiGLWindow() constructed on its own: event_handler defaults to None.
Window_init(x) ==
    /\ Running
    /\ x \notin Widgets
    /\ ~opengl_window[x].built
    /\ opengl_window' = [opengl_window EXCEPT ![x] = ImGuiGLWindow(None)]
    /\ UNCHANGED <<widgetVars, libVars, obsVars, routed, toolkitVars, counter>>

\* A raw toolkit event as a native callback receives it: it carries no EventType.
RawEvent(button, key, text, x, y, angleY) == QtEvent("", button, key, text, x, y, angleY)

\* The steps of a native callback: the call of the registered handler, and the
\* call of the base class's callback (the toolkit's default handling).
HandlerStep(event_type, e) == <<"event_handler", event_type, e>>

SuperStep(callback, e) == <<"super", callback, e>>

\* `if self.event_handler: self.event_handler(event_type, e)` followed by
\* `super().<callback>(e)`.  The handler of a widget's window is the widget's
\* handle_event; an exception it raises leaves the callback before the call of
\* the base class.
Forward(x, callback, event_type, e, out) ==
    /\ Running
    /\ opengl_window[x].built
    /\ IF opengl_window[x].event_handler # None
       THEN /\ handle_event(x, [e EXCEPT !.type = event_type], out)
            /\ routed' = [window |-> x, callback |-> callback, event |-> e,
                          steps |-> <<HandlerStep(event_type, e)>>
                                    \o (IF fault' = "none" THEN <<SuperStep(callback, e)>> ELSE <<>>),
                          fault |-> fault']
       ELSE /\ out = "proceed"
            /\ routed' = [window |-> x, callback |-> callback, event |-> e,
                          steps |-> <<SuperStep(callback, e)>>, fault |-> "none"]
            /\ UNCHANGED <<widgetVars, libVars, obsVars, opengl_window, toolkitVars, counter>>

mousePressEvent(x, e, out) == Forward(x, "mousePressEvent", "MOUSE_PRESS", e, out)

mouseReleaseEvent(x, e, out) == Forward(x, "mouseReleaseEvent", "MOUSE_RELEASE", e, out)

mouseMoveEvent(x, e, out) == Forward(x, "mouseMoveEvent", "MOUSE_MOVE", e, out)

wheelEvent(x, e, out) == Forward(x, "wheelEvent", "WHEEL", e, out)

keyPressEvent(x, e, out) == Forward(x, "keyPressEvent", "KEY_PRESS", e, out)

keyReleaseEvent(x, e, out) == Forward(x, "keyReleaseEvent", "KEY_RELEASE", e, out)

focusInEvent(x, e, out) == Forward(x, "focusInEvent", "FOCUS_IN", e, out)

focusOutEvent(x, e, out) == Forward(x, "focusOutEvent", "FOCUS_OUT", e, out)

\* ------------------------------------------------- ImGuiOpenGLWidget.render
\* The two early returns: the surface is not exposed, or makeCurrent fails.
\* makeCurrent is only called on an exposed surface.
SkipsOnBindFailureOnly(exposed, bound) == ~bound

SkipsWhenExposed(exposed, bound) == exposed \/ ~bound

RenderSkips(exposed, bound) == ~exposed \/ ~bound

\* `if not self.renderer`
AlwaysConstructs(w) == TRUE

NeedsRenderer(w) == renderer[w] = NoRenderer

\* The context render selects before it touches GUI state.
KeepsActiveContext(w) == current

SelectedContext(w) == imgui_context[w]

\* `except RuntimeError` around imgui.new_frame()
FrameFailureNotCaught(frame) == FALSE

FrameAborts(frame) == frame = "RuntimeError"

\* `except (RuntimeError, Exception)` around self.render_content()
HookCaught(hook) == hook \in {"RuntimeError", "Exception"}

\* Whether imgui.render() follows the content hook: it sits in `finally`.
FinalizesOnSuccessOnly(hook) == hook = "ok"

Finalizes(hook) == TRUE

\* The calls up to the first one that reads the selected context; `io` is the
\* result of that read.
RenderHead(w, sel, exposed, bound, io) ==
    <<CallR("isExposed", current, Truth(exposed)), CallR("makeCurrent", current, Truth(bound))>>
    \o (IF NeedsRenderer(w) THEN <<Call("ProgrammablePipelineRenderer", current)>> ELSE <<>>)
    \o <<Call("set_current_context", sel), Call("glViewport", sel), Call("glClearColor", sel),
         Call("glClear", sel), CallR("get_io", sel, io)>>

\* The calls of a tick that returns early.
SkipTrace(exposed) ==
    IF exposed THEN <<Call("isExposed", current), CallR("makeCurrent", current, "False")>>
    ELSE <<CallR("isExposed", current, "False")>>

\* The display-size write and the frame begin.
FrameTrace(sel, frame) == <<Call("set_display_size", sel), CallR("new_frame", sel, frame)>>

\* The content hook and what follows it inside the try statement.
HookTrace(sel, hook) ==
    <<CallR("render_content", sel, hook)>>
    \o (IF hook # "ok" /\ HookCaught(hook) THEN <<Call("traceback.print_exc", sel)>> ELSE <<>>)
    \o (IF Finalizes(hook) THEN <<Call("render", sel)>> ELSE <<>>)

\* What follows the try statement: `if self.renderer` holds by then.
SwapBeforeSubmit(sel) == <<Call("swapBuffers", sel), Call("renderer.render", sel)>>

SubmitTrace(sel) == <<Call("renderer.render", sel), Call("swapBuffers", sel)>>

\* new_frame on context c: the frame counter advances and the queued input is consumed.
NewFrameCount(c) == [frameCount EXCEPT ![c] = @ + 1]

\* The inputs of a tick: isExposed() and makeCurrent() results, the surface size,
\* what new_frame and the content hook do, and (`out`) what a read of a context
\* that is not live does.  An input is drawn only when the tick gets to the call
\* that consumes it; otherwise it is held at one fixed value.
render(w, exposed, bound, size, frame, hook, out) ==
    /\ Running
    /\ timer[w]
    /\ actor' = w
    /\ handler' = "render"
    /\ UNCHANGED <<obj, imgui_context, timer, delCalls, ctxStatus, destroyCalls, fbScale, iniFilename>>
    /\ UNCHANGED hostVars
    /\ IF RenderSkips(exposed, bound)
       THEN /\ ~exposed => bound
            /\ frame = "ok" /\ hook = "ok" /\ out = "proceed"
            /\ trace' = SkipTrace(exposed)
            /\ fault' = "none"
            /\ UNCHANGED <<renderer, rendererCtor, current, frameCount, inputQueue, displaySize>>
       ELSE LET sel == SelectedContext(w) IN
            /\ renderer' = [renderer EXCEPT ![w] = IF NeedsRenderer(w) THEN rendererCtor[w] + 1 ELSE @]
            /\ rendererCtor' = [rendererCtor EXCEPT ![w] = IF NeedsRenderer(w) THEN @ + 1 ELSE @]
            /\ current' = sel
            /\ IF Live(sel) THEN out = "proceed"
               ELSE IF sel = None THEN out \in {"RuntimeError", "crash"}
               ELSE out \in {"proceed", "crash"}
            /\ IF out # "proceed"
               THEN \* the read of io fails on a context that is not live
                    /\ frame = "ok" /\ hook = "ok"
                    /\ trace' = RenderHead(w, sel, exposed, bound, out)
                    /\ fault' = out
                    /\ UNCHANGED <<frameCount, inputQueue, displaySize>>
               ELSE /\ displaySize' = [displaySize EXCEPT ![sel] = size]
                    /\ IF frame # "ok"
                       THEN \* new_frame raised: caught and swallowed, or it leaves render
                            /\ hook = "ok"
                            /\ trace' = RenderHead(w, sel, exposed, bound, "ok") \o FrameTrace(sel, frame)
                            /\ fault' = IF FrameAborts(frame) THEN "none" ELSE frame
                            /\ UNCHANGED <<frameCount, inputQueue>>
                       ELSE /\ frameCount[sel] < MaxFrames
                            /\ frameCount' = NewFrameCount(sel)
                            /\ inputQueue' = [inputQueue EXCEPT ![sel] = <<>>]
                            /\ IF hook = "ok" \/ HookCaught(hook)
                               THEN /\ trace' = RenderHead(w, sel, exposed, bound, "ok") \o FrameTrace(sel, frame)
                                                \o HookTrace(sel, hook) \o SubmitTrace(sel)
                                    /\ fault' = "none"
                               ELSE \* the hook's exception leaves render after the finally block
                                    /\ trace' = RenderHead(w, sel, exposed, bound, "ok") \o FrameTrace(sel, frame)
                                                \o HookTrace(sel, hook)
                                    /\ fault' = hook

FrameOutcomes == {"ok", "RuntimeError"}
HookOutcomes == {"ok", "RuntimeError", "Exception"}

Outcomes == {"proceed", "crash", "RuntimeError"}

\* Events delivered in the lifecycle specification.
LifecycleEvents == {QtEvent("MOUSE_PRESS", "LeftButton", "", <<>>, 0, 0, 0)}

Next ==
    \E w \in Widgets :
        \/ \E p \in LifecyclePrefixes, ok \in BOOLEAN :
                Widget_init(w, p, ok, devicePixelRatio[w]) /\ UNCHANGED counter
        \/ \E ub \in {"proceed", "crash"} : Widget_del(w, ub)
        \/ \E e \in LifecycleEvents, out \in Outcomes : handle_event(w, e, out) /\ UNCHANGED routed
        \/ \E exposed \in BOOLEAN, bound \in BOOLEAN, frame \in FrameOutcomes,
              hook \in HookOutcomes, out \in Outcomes :
                render(w, exposed, bound, surfaceSize[w], frame, hook, out)

Spec == Init /\ [][Next]_vars

\* ------------------------------------------------- the event-routing scenario
\* The raw events the toolkit delivers: a left-button mouse event at (1, 2), a
\* one-notch wheel event, a key event of the A key with its text, a focus event.
RouterMouseEvent == RawEvent("LeftButton", "", <<>>, 1, 2, 0)
RouterWheelEvent == RawEvent("NoButton", "", <<>>, 1, 2, 120)
RouterKeyEvent == RawEvent("NoButton", "Key_A", <<"a">>, 0, 0, 0)
RouterFocusEvent == RawEvent("NoButton", "", <<>>, 0, 0, 0)

\* The windows whose native callbacks the toolkit invokes in this scenario, and
\* the widget that is constructed and torn down meanwhile.
RouterWindows == {"A", "bare"}
RouterOther == "B"

RouterNext ==
    \/ Window_init("bare")
    \/ \E w \in Widgets, p \in LifecyclePrefixes : Widget_init(w, p, TRUE, devicePixelRatio[w]) /\ UNCHANGED counter
    \/ Widget_del(RouterOther, "proceed")
    \/ \E x \in RouterWindows, out \in Outcomes :
        \/ mousePressEvent(x, RouterMouseEvent, out)
        \/ mouseReleaseEvent(x, RouterMouseEvent, out)
        \/ mouseMoveEvent(x, RouterMouseEvent, out)
        \/ wheelEvent(x, RouterWheelEvent, out)
        \/ keyPressEvent(x, RouterKeyEvent, out)
        \/ keyReleaseEvent(x, RouterKeyEvent, out)
        \/ focusInEvent(x, RouterFocusEvent, out)
        \/ focusOutEvent(x, RouterFocusEvent, out)

RouterSpec == Init /\ [][RouterNext]_vars

\* ------------------------------------------------------ the display scenario
\* The toolkit resizes the surface of w: opengl_window.size() answers `size` from
\* now on.  No handler of the widget runs.
Resize(w, size) ==
    /\ Running
    /\ obj[w] = "built"
    /\ size # surfaceSize[w]
    /\ surfaceSize' = [surfaceSize EXCEPT ![w] = size]
    /\ actor' = w /\ handler' = "toolkit" /\ trace' = <<>>
    /\ UNCHANGED <<widgetVars, libVars, fault, opengl_window, routed, devicePixelRatio, counter>>

\* The widget moves to a screen of another pixel density: devicePixelRatio()
\* answers `dpr` from now on.
ScreenChange(w, dpr) ==
    /\ Running
    /\ obj[w] = "built"
    /\ dpr # devicePixelRatio[w]
    /\ devicePixelRatio' = [devicePixelRatio EXCEPT ![w] = dpr]
    /\ actor' = w /\ handler' = "toolkit" /\ trace' = <<>>
    /\ UNCHANGED <<widgetVars, libVars, fault, opengl_window, routed, surfaceSize, counter>>

DisplaySizes == {<<640, 480>>, <<800, 600>>}
DisplayPixelRatios == {1, 2}

\* Widgets are constructed and tick while the toolkit changes their surface
\* size and pixel ratio.
DisplayNext ==
    \E w \in Widgets :
        \/ \E p \in LifecyclePrefixes : Widget_init(w, p, TRUE, devicePixelRatio[w]) /\ UNCHANGED counter
        \/ \E size \in DisplaySizes : Resize(w, size)
        \/ \E dpr \in DisplayPixelRatios : ScreenChange(w, dpr)
        \/ \E exposed \in BOOLEAN, bound \in BOOLEAN, frame \in FrameOutcomes, hook \in {"ok"} :
                render(w, exposed, bound, surfaceSize[w], frame, hook, "proceed")

DisplaySpec == Init /\ [][DisplayNext]_vars

\* -------------------------------------------------------- the input scenario
\* Key events: keys of the key table (two of them mapped to the same GUI key)
\* and one that is not in it, each with no text, one character or two.
InputKeys == {"Key_A", "Key_Tab", "Key_Return", "Key_Enter", "Key_F12", "Key_Q"}
InputTexts == {<<>>, <<"a">>, <<"\t">>, <<"a", "b">>}
InputKeyEvents == {RawEvent("NoButton", k, t, 0, 0, 0) : k \in InputKeys, t \in InputTexts}

\* Mouse events: the three buttons the translator knows and two it does not.
InputButtons == {"LeftButton", "RightButton", "MiddleButton", "BackButton", "NoButton"}
InputMouseEvents == {RawEvent(b, "", <<>>, 1, 2, 0) : b \in InputButtons}

\* The widget whose window receives the events.
InputWidget == "A"

\* One widget is constructed, the toolkit delivers key and mouse-button events
\* to its window, and its ticks consume the queued input.
InputNext ==
    \/ \E p \in LifecyclePrefixes :
            Widget_init(InputWidget, p, TRUE, devicePixelRatio[InputWidget]) /\ UNCHANGED counter
    \/ \E e \in InputKeyEvents :
        \/ keyPressEvent(InputWidget, e, "proceed")
        \/ keyReleaseEvent(InputWidget, e, "proceed")
    \/ \E e \in InputMouseEvents :
        \/ mousePressEvent(InputWidget, e, "proceed")
        \/ mouseReleaseEvent(InputWidget, e, "proceed")
    \/ \E exposed \in BOOLEAN, bound \in BOOLEAN, frame \in FrameOutcomes, hook \in HookOutcomes :
            render(InputWidget, exposed, bound, surfaceSize[InputWidget], frame, hook, "proceed")

InputSpec == Init /\ [][InputNext]_vars

\* ------------------------------------------------------- the plugin scenario
\* DemoImGuiWidget.__init__(self, parent=None) calls super().__init__(parent):
\* the base class takes `parent` as its first parameter, ini_prefix.
DemoImGuiWidget_init(w, parent, device_pixel_ratio) == Widget_init(w, parent, TRUE, device_pixel_ratio)

\* ImGuiPluginMainWidget.OnCreate: `imgui_widget = DemoImGuiWidget()`, parent
\* left at its default None.
OnCreate(w) == DemoImGuiWidget_init(w, None, devicePixelRatio[w])

\* ImGuiPlugin.open_gui: the form is created and shown, which runs OnCreate,
\* and the plugin's counter is incremented.  w is the widget this call creates.
open_gui(w) ==
    /\ OnCreate(w)
    /\ counter' = counter + 1

\* The host calls open_gui repeatedly; the widgets it opened receive events and tick.
PluginNext ==
    \E w \in Widgets :
        \/ open_gui(w)
        \/ \E e \in LifecycleEvents : handle_event(w, e, "proceed") /\ UNCHANGED routed
        \/ \E exposed \in BOOLEAN, bound \in BOOLEAN, frame \in FrameOutcomes, hook \in HookOutcomes :
                render(w, exposed, bound, surfaceSize[w], frame, hook, "proceed")

PluginSpec == Init /\ [][PluginNext]_vars

\* --------------------------------------------------- the render-loop scenario
\* Widgets are constructed and their timers fire; every tick may find the
\* surface unexposed, fail to bind, fail at new_frame, or have its hook raise.
LoopNext ==
    \E w \in Widgets :
        \/ \E p \in LifecyclePrefixes : Widget_init(w, p, TRUE, devicePixelRatio[w]) /\ UNCHANGED counter
        \/ \E exposed \in BOOLEAN, bound \in BOOLEAN, frame \in FrameOutcomes, hook \in HookOutcomes :
                render(w, exposed, bound, surfaceSize[w], frame, hook, "proceed")

\* A tick of w's timer that finds the surface exposed, binds, and whose
\* new_frame succeeds.
GoodTick(w) == \E hook \in HookOutcomes : render(w, TRUE, TRUE, surfaceSize[w], "ok", hook, "proceed")

\* self.timer.start(16): while the timer runs it keeps firing, and the surface
\* does not stay unexposed, unbindable or failing at new_frame forever.
LoopSpec == Init /\ [][LoopNext]_vars /\ \A w \in Widgets : WF_vars(GoodTick(w))

\* ------------------------------------------------------------------ claims
\* C1: in every render cycle in which imgui.new_frame() returned normally,
\* imgui.render() is called exactly once, after new_frame and after the content
\* hook, whether the hook returned or raised; and when the hook raised an
\* Exception nothing escapes render().
C1_FinalizeAlways ==
    (handler = "render" /\ Returned(trace, "new_frame")) =>
        /\ Count(trace, "render") = 1
        /\ Count(trace, "render_content") = 1
        /\ Pos(trace, "new_frame") < Pos(trace, "render_content")
        /\ Pos(trace, "render_content") < Pos(trace, "render")
        /\ Raised(trace, "render_content") => fault = "none"

C1_Witness ==
    /\ handler = "render"
    /\ Returned(trace, "new_frame")
    /\ Raised(trace, "render_content")
    /\ Returned(trace, "render")

\* C2: with both widgets live, an input event delivered to a widget's surface
\* is handled against, and queued into, the GuiContext that widget owns,
\* whichever widget selected the global active context last.
C2_EventsReachOwnContext ==
    [][(handler' = "handle_event" /\ \A w \in Widgets : obj[w] = "built" /\ Live(imgui_context[w])) =>
        LET own == imgui_context[actor'] IN
        /\ \A i \in DOMAIN trace' : trace'[i][2] = own
        /\ \A c \in Contexts \ {own} : inputQueue'[c] = inputQueue[c]
        /\ Len(inputQueue'[own]) = Len(inputQueue[own]) + Len(trace') - 1]_vars

\* C3: a render cycle of a widget whose GuiContext is live leaves every other
\* context's frame counter alone, advances its own by exactly one when the
\* cycle opens a frame and by nothing otherwise, and runs new_frame, the
\* content hook and imgui.render against the owner's GuiContext.
C3_FrameCountersIndependent ==
    [][(handler' = "render" /\ Live(imgui_context[actor'])) =>
        LET own == imgui_context[actor'] IN
        /\ \A c \in Contexts \ {own} : frameCount'[c] = frameCount[c]
        /\ frameCount'[own] = frameCount[own] + (IF Returned(trace', "new_frame") THEN 1 ELSE 0)
        /\ \A i \in DOMAIN trace' :
            trace'[i][1] \in {"new_frame", "render_content", "render"} => trace'[i][2] = own]_vars

\* Both widgets are live, each has completed one cycle of its own, and the last
\* cycle started while the other widget's context was the active one.
C3_Witness ==
    /\ \A w \in Widgets : obj[w] = "built" /\ Live(imgui_context[w]) /\ frameCount[imgui_context[w]] = 1
    /\ handler = "render"
    /\ Returned(trace, "render")
    /\ trace[1][2] # imgui_context[actor]

\* The tick returned early: isExposed() or makeCurrent() answered False.
Skipped(t) == \E i \in DOMAIN t : t[i][1] \in {"isExposed", "makeCurrent"} /\ t[i][3] = "False"

\* C4: a tick whose surface is not exposed, or whose makeCurrent fails, makes
\* no call but those two queries, raises nothing, and leaves the widget's
\* fields and all GUI-library state (active context, display size, frame
\* counters, input queues) as they were.
C4_SkippedTickChangesNothing ==
    [][(handler' = "render" /\ Skipped(trace')) =>
        /\ \A i \in DOMAIN trace' : trace'[i][1] \in {"isExposed", "makeCurrent"}
        /\ fault' = "none"
        /\ UNCHANGED <<widgetVars, libVars>>]_vars

\* A tick skipped at makeCurrent while another widget's context is active and
\* this widget has no renderer yet.
C4_Witness ==
    /\ handler = "render"
    /\ trace = <<Call("isExposed", current), CallR("makeCurrent", current, "False")>>
    /\ Live(imgui_context[actor])
    /\ current # imgui_context[actor]
    /\ renderer[actor] = NoRenderer

CycleOrder ==
    <<"makeCurrent", "set_current_context", "set_display_size", "new_frame",
      "render_content", "render", "renderer.render", "swapBuffers">>

\* C6: in a cycle whose surface is exposed, whose bind succeeds and whose
\* new_frame succeeds, each of makeCurrent, context selection, display-size
\* write, new_frame, content hook, imgui.render, draw-data submission and
\* swapBuffers is called exactly once, in that order, the selection is of the
\* widget's own GuiContext, and swapBuffers is the last call.
C6_CycleOrder ==
    (handler = "render" /\ Returned(trace, "isExposed") /\ Returned(trace, "makeCurrent")
        /\ Returned(trace, "new_frame")) =>
        /\ \A k \in DOMAIN CycleOrder : Count(trace, CycleOrder[k]) = 1
        /\ \A k \in 1..(Len(CycleOrder) - 1) : Pos(trace, CycleOrder[k]) < Pos(trace, CycleOrder[k + 1])
        /\ trace[Pos(trace, "set_current_context")][2] = imgui_context[actor]
        /\ trace[Len(trace)][1] = "swapBuffers"

\* A full cycle whose content hook raised.
C6_Witness ==
    /\ handler = "render"
    /\ Returned(trace, "new_frame")
    /\ Raised(trace, "render_content")
    /\ trace[Len(trace)][1] = "swapBuffers"
    /\ Live(imgui_context[actor])

\* C7: a teardown selects the widget's GuiContext, then shuts the renderer down
\* if there is one, then destroys the GuiContext; the renderer is never shut
\* down once its GuiContext has been destroyed.
C7_TeardownOrder ==
    (handler = "__del__" /\ trace # <<>>) =>
        LET c == imgui_context[actor] IN
        /\ trace[1] = Call("set_current_context", c)
        /\ trace[Len(trace)] = Call("destroy_context", c)
        /\ \A i \in DOMAIN trace : trace[i][1] = "renderer.shutdown" => 1 < i /\ i < Len(trace)
        /\ Has(trace, "renderer.shutdown") => destroyCalls[c] = 1

\* C8: every GuiContext is destroyed at most once, and a teardown never fails,
\* also on a widget whose construction stopped before the GuiContext existed.
C8_DestroyedOnce ==
    /\ \A c \in Contexts : destroyCalls[c] <= 1
    /\ handler = "__del__" => fault = "none"

\* C9: no render tick gets as far as a GUI call on a widget whose teardown has
\* begun.
C9_NoTickAfterTeardown ==
    ~(handler = "render" /\ delCalls[actor] > 0 /\ Has(trace, "set_current_context"))

\* C10: a widget's renderer is constructed at most once: it is absent until the
\* first tick whose makeCurrent succeeds, that tick constructs it, and every
\* later handler leaves the same object in place.
C10_RendererOnce ==
    /\ [](\A w \in Widgets : rendererCtor[w] <= 1 /\ (renderer[w] = NoRenderer <=> rendererCtor[w] = 0))
    /\ [][\A w \in Widgets :
            /\ renderer[w] # NoRenderer => renderer'[w] = renderer[w]
            /\ (renderer[w] = NoRenderer /\ renderer'[w] # NoRenderer) =>
                    handler' = "render" /\ actor' = w /\ Returned(trace', "makeCurrent")
            /\ (handler' = "render" /\ actor' = w /\ Returned(trace', "makeCurrent")) =>
                    renderer'[w] # NoRenderer]_vars

\* The renderer exists after a tick that did not construct it, a tick that
\* aborted at new_frame.
C10_Witness ==
    /\ handler = "render"
    /\ renderer[actor] # NoRenderer
    /\ rendererCtor[actor] = 1
    /\ ~Has(trace, "ProgrammablePipelineRenderer")
    /\ Raised(trace, "new_frame")

\* The EventType that belongs to each native callback.
MatchingEventType ==
    [n \in {"mousePressEvent", "mouseReleaseEvent", "mouseMoveEvent", "wheelEvent",
             "keyPressEvent", "keyReleaseEvent", "focusInEvent", "focusOutEvent"} |->
        CASE n = "mousePressEvent" -> "MOUSE_PRESS" [] n = "mouseReleaseEvent" -> "MOUSE_RELEASE"
          [] n = "mouseMoveEvent" -> "MOUSE_MOVE" [] n = "wheelEvent" -> "WHEEL"
          [] n = "keyPressEvent" -> "KEY_PRESS" [] n = "keyReleaseEvent" -> "KEY_RELEASE"
          [] n = "focusInEvent" -> "FOCUS_IN" [] n = "focusOutEvent" -> "FOCUS_OUT"]

\* C11: in every native callback of a window (that the process survives), a
\* registered handler is invoked exactly once, with the callback's EventType
\* and the raw event, before the toolkit's default handling, and the default
\* handling runs exactly once, whether or not a handler is registered.
C11_RouterDefaultHandling ==
    (routed.callback # None /\ routed.fault # "crash") =>
        routed.steps =
            (IF opengl_window[routed.window].event_handler # None
             THEN <<HandlerStep(MatchingEventType[routed.callback], routed.event)>> ELSE <<>>)
            \o <<SuperStep(routed.callback, routed.event)>>

\* C12: on every tick that reaches a successful bind, the surface size and the
\* device pixel ratio the toolkit reports on that tick are both written into
\* the widget's GuiContext, and the writes come before new_frame.
C12_SizeAndScaleEachTick ==
    [][(handler' = "render" /\ Returned(trace', "makeCurrent")) =>
        LET own == imgui_context[actor'] IN
        /\ displaySize'[own] = surfaceSize[actor']
        /\ fbScale'[own] = devicePixelRatio[actor']
        /\ Has(trace', "set_display_size")
        /\ Pos(trace', "set_display_size") < Pos(trace', "new_frame")]_vars

\* The entries a step appended to the input queue of context c.
Appended(c) == SubSeq(inputQueue'[c], Len(inputQueue[c]) + 1, Len(inputQueue'[c]))

IsKeyEvent(q) == q.op = "add_key_event"

IsCharEvent(q) == q.op = "add_input_character"

\* C13: a key press queues one input-character event per character of the
\* event's text, in order, whether or not the key is in the key table; a key
\* that is not in the table queues no key event, a key that is queues its
\* key-down event before the characters; a key release queues no character.
C13_KeyPressText ==
    [][(handler' = "handle_event" /\ routed'.callback \in {"keyPressEvent", "keyReleaseEvent"}) =>
        LET e == routed'.event
            added == Appended(current)
            keys == SelectSeq(added, IsKeyEvent)
            chars == SelectSeq(added, IsCharEvent)
        IN  IF routed'.callback = "keyPressEvent"
            THEN /\ Len(chars) = Len(e.text)
                 /\ \A i \in DOMAIN chars : chars[i].x = Ord(e.text[i])
                 /\ added = keys \o chars
                 /\ IF e.key \in DOMAIN key_map
                    THEN Len(keys) = 1 /\ keys[1].key = key_map[e.key] /\ keys[1].down
                    ELSE keys = <<>>
            ELSE chars = <<>>]_vars

\* A press of a key that is not in the key table, with a text of two
\* characters, has queued the two characters and nothing else.
C13_Witness ==
    /\ handler = "handle_event"
    /\ routed.callback = "keyPressEvent"
    /\ routed.event.key = "Key_Q"
    /\ routed.event.text = <<"a", "b">>
    /\ Len(inputQueue[current]) = 2
    /\ \A i \in 1..2 : IsCharEvent(inputQueue[current][i])
    /\ inputQueue[current][1].x = 97 /\ inputQueue[current][2].x = 98

\* The GUI button that corresponds to each toolkit button the translator knows.
CorrespondingButton == [LeftButton |-> "left", RightButton |-> "right", MiddleButton |-> "middle"]

\* C14: qt_mouse_button_to_imgui maps the left, right and middle toolkit
\* buttons to the corresponding GUI buttons and any other code to None; a mouse
\* press or release of one of the three queues exactly one button event of
\* that GUI button, down for a press and up for a release, raising nothing,
\* and a press or release of any other button queues nothing and raises nothing.
C14_MouseButtonMapping ==
    [][(handler' = "handle_event" /\ routed'.callback \in {"mousePressEvent", "mouseReleaseEvent"}) =>
        LET b == routed'.event.button
            added == Appended(current)
        IN  /\ fault' = "none"
            /\ IF b \in DOMAIN CorrespondingButton
               THEN /\ qt_mouse_button_to_imgui(b) = CorrespondingButton[b]
                    /\ Len(added) = 1
                    /\ added[1].op = "add_mouse_button_event"
                    /\ added[1].x = ButtonValue(CorrespondingButton[b])
                    /\ added[1].down = (routed'.callback = "mousePressEvent")
               ELSE /\ qt_mouse_button_to_imgui(b) = None
                    /\ added = <<>>]_vars

\* A release of the middle button has queued one button-up event of the GUI's
\* middle button.
C14_Witness ==
    /\ handler = "handle_event"
    /\ routed.callback = "mouseReleaseEvent"
    /\ routed.event.button = "MiddleButton"
    /\ Len(inputQueue[current]) = 1
    /\ inputQueue[current][1].op = "add_mouse_button_event"
    /\ inputQueue[current][1].x = 2
    /\ ~inputQueue[current][1].down

\* The calls of a handler that are not GUI-library calls: the toolkit's and
\* the graphics context's, made before the handler selects a GuiContext.
ToolkitCalls == {"isExposed", "makeCurrent", "ProgrammablePipelineRenderer"}

\* C15: every GUI call that handle_event or a render cycle of a widget that has
\* not been torn down makes, and every GUI call of a first teardown, executes
\* while a live GuiContext is the active one; also when another widget has
\* been torn down in the meantime.
C15_ActiveContextLive ==
    /\ (handler \in {"handle_event", "render"} /\ Live(imgui_context[actor])) =>
            \A i \in DOMAIN trace : trace[i][1] \notin ToolkitCalls => Live(trace[i][2])
    /\ (handler = "__del__" /\ trace # <<>> /\ destroyCalls[imgui_context[actor]] = 1) =>
            \A i \in DOMAIN trace : trace[i][2] = imgui_context[actor]

\* C16: the widgets opened by successive open_gui calls have pairwise distinct
\* ini file names.
C16_DistinctIniNames ==
    \A v, w \in Widgets :
        (v # w /\ obj[v] = "built" /\ obj[w] = "built" /\ counter >= 2) =>
            iniFilename[imgui_context[v]] # iniFilename[imgui_context[w]]

\* The last handler was a tick of w that was skipped, aborted at new_frame, or
\* whose content hook raised.
FailedTick(w) ==
    /\ handler = "render" /\ actor = w
    /\ Skipped(trace) \/ Raised(trace, "new_frame") \/ Raised(trace, "render_content")

\* The last handler was a tick of w that went through finalize, draw-data
\* submission and buffer swap.
FullCycle(w) ==
    /\ handler = "render" /\ actor = w
    /\ Returned(trace, "new_frame") /\ Returned(trace, "render") /\ Returned(trace, "renderer.render")
    /\ trace[Len(trace)] = Call("swapBuffers", imgui_context[w])

====
